---- MODULE Spec2Model ----
(***************************************************************************)
(* Model of the two asynchronous external-job connectors of flytekit:      *)
(*   MMCloudConnector    (plugins/flytekit-mmcloud, connector.py)          *)
(*   BatchEndpointAgent  (plugins/flytekit-openai, batch/agent.py)         *)
(* Each connector operation (create, get, delete) is a coroutine; every    *)
(* `await` of a backend call is a suspension point, so an operation is a   *)
(* sequence of steps, one per backend round trip.  The host engine runs    *)
(* the operations of the processes in Procs concurrently.                  *)
(* Spec is the connectors from their construction; SpecNorm is the polls   *)
(* of a job of any status, SpecPair the polls and cancellations of two     *)
(* jobs, SpecPure the conversions of handles and requests.                 *)
(***************************************************************************)
EXTENDS Naturals, Sequences, FiniteSets, TLC

\* ------------------------------------------------------------------ bounds
MaxJobs == 1        \* jobs the backends accept in one run
MaxOps == 3         \* connector operations the host engine starts in one run
MaxLen == 2         \* characters of an identifier or an organization name
MaxRes == 4         \* CPUs, and GiB of memory, a task asks for

Procs == {"p1", "p2"}
Conns == {"mmcloud", "openai"}
NoneVal == "None"   \* Python's None

\* --------------------------------------------------- backend vocabularies
\* agent.py, class State: the three buckets of the OpenAI batch statuses
State_Running == {"in_progress", "finalizing", "validating"}
State_Success == {"completed"}
State_Failed == {"failed", "cancelled", "cancelling", "expired"}

\* "finalizing" filed under Failed
key_by_value_FinalizingFailed(value) ==
    IF value \in (State_Running \ {"finalizing"}) THEN "Running"
    ELSE IF value \in State_Success THEN "Success"
    ELSE IF value \in (State_Failed \cup {"finalizing"}) THEN "Failed"
    ELSE NoneVal

\* the buckets tried in another order, "validating" filed under Failed too
key_by_value_ValidatingFailed(value) ==
    IF value \in (State_Failed \cup {"validating"}) THEN "Failed"
    ELSE IF value \in State_Success THEN "Success"
    ELSE IF value \in State_Running THEN "Running"
    ELSE NoneVal

\* State.key_by_value: the name of the first member whose list holds the
\* value; the loop falls off its end, and the method returns None, when no
\* member holds it.
key_by_value(value) ==
    IF value \in State_Running THEN "Running"
    ELSE IF value \in State_Success THEN "Success"
    ELSE IF value \in State_Failed THEN "Failed"
    ELSE NoneVal

\* The canonical phases of the host engine, and the marker of a get that
\* determined no phase.
RUNNING == "Running"
SUCCEEDED == "Succeeded"
FAILED == "Failed"
UNDEFINED == "Undefined"
NoPhase == "-"
CanonicalPhases == {"Queued", RUNNING, SUCCEEDED, FAILED, "Cancelled"}
TerminalPhases == {SUCCEEDED, FAILED, "Cancelled"}

\* flytekit.extend.backend.utils.convert_to_flyte_phase (not among the
\* sources): the table of section 4.3 over the state names, total over
\* strings with the fallback phase.  None is no string: nothing is
\* converted and no phase results.
convert_to_flyte_phase(state) ==
    IF state = NoneVal THEN NoPhase
    ELSE IF state \in {"Running"} THEN RUNNING
    ELSE IF state \in {"Success"} THEN SUCCEEDED
    ELSE IF state \in {"Failed"} THEN FAILED
    ELSE UNDEFINED

\* flytekitplugins.mmcloud.utils.mmcloud_status_to_flyte_phase (not among
\* the sources): the table of section 4.3, total, with the fallback phase.
mmcloud_status_to_flyte_phase(status) ==
    IF status \in {"queued", "running", "in_progress", "finalizing", "validating",
                   "submitted"} THEN RUNNING
    ELSE IF status \in {"completed", "done", "floatSucceeded"} THEN SUCCEEDED
    ELSE IF status \in {"failed", "cancelled", "cancelling", "expired", "lost",
                        "floatFailed", "suspended", "unknown"} THEN FAILED
    ELSE UNDEFINED

\* ---------------------------------------------------------------- state
VARIABLES
    session,    \* the OpCenter session of the process is valid
    jobs,       \* the backends' jobs, in order of submission
    handles,    \* job identifiers create has returned to the host engine
    pc,         \* per process: the backend call its operation awaits
    cur,        \* per process: the operation in progress
    res,        \* how the operation that ended in the last step has ended
    ops,        \* operations started so far
    first,      \* per job: how the first delete that ended has ended: ok, rejected, error
    got,        \* per job: what the last two gets that returned have returned
    files,      \* the job scripts in the directory of temporary files
    aux         \* a value under conversion: a handle on the wire, a request

vars == <<session, jobs, handles, pc, cur, res, ops, first, got, files, aux>>

JobIds == 1..Len(jobs)

\* h: the job of the handle the operation was called with; job: the job its
\* request names; probes, logins, calls: the `float login --info`, `float
\* login` and backend calls it has issued; probe: what the probe answered;
\* file: the name of its job script (0: none);
\* late: the job of the handle had completed when delete was called;
\* again: a delete on the handle had ended when delete was called
Idle == [op |-> "-", conn |-> "-", h |-> 0, job |-> 0, probes |-> 0, probe |-> "-",
         logins |-> 0, calls |-> 0, rival |-> FALSE, file |-> 0, late |-> FALSE,
         again |-> FALSE]

\* Resource(phase, outputs, message), outputs and message as "is not None"
Resource(phase, outputs, message) ==
    [phase |-> phase, outputs |-> outputs, message |-> message]
NoResource == Resource(NoPhase, FALSE, FALSE)
NoGot == [st |-> "-", r |-> NoResource, pst |-> "-", pr |-> NoResource]

NoRes == [op |-> "-", conn |-> "-", h |-> 0, kind |-> "-", cmd |-> "-",
          cause |-> "-", st |-> "-", phase |-> NoPhase, outputs |-> FALSE,
          message |-> FALSE, probes |-> 0, logins |-> 0, calls |-> 0,
          late |-> FALSE, again |-> FALSE]

Outcome(p, kind, cmd, cause, st, phase, outputs, message) ==
    [op |-> cur[p].op, conn |-> cur[p].conn, h |-> cur[p].h, kind |-> kind,
     cmd |-> cmd, cause |-> cause, st |-> st, phase |-> phase,
     outputs |-> outputs, message |-> message,
     probes |-> cur[p].probes, logins |-> cur[p].logins, calls |-> cur[p].calls,
     late |-> cur[p].late, again |-> cur[p].again]

\* a job script: its name, and whether its content has reached the file
JobFile(name, flushed) == [name |-> name, flushed |-> flushed]

\* the job script is kept when the block is left
with_exit_Keep(p) == files

\* connector.py 95-125: the `with NamedTemporaryFile(mode="w")` block is left,
\* by return or by exception: the file is closed and deleted
with_exit(p) == {f \in files : f.name # cur[p].file}

\* The operation of p returns or raises: the coroutine is gone, and the
\* `with` block of its job script is left.
End(p, o) ==
    /\ pc' = [pc EXCEPT ![p] = "idle"]
    /\ cur' = [cur EXCEPT ![p] = Idle]
    /\ res' = o
    /\ files' = with_exit(p)

NewJob(conn, st) == [conn |-> conn, st |-> st, err |-> FALSE]

\* a job is accepted by a backend: the logs of the job start empty
Accept(conn, st) ==
    /\ jobs' = Append(jobs, NewJob(conn, st))
    /\ first' = Append(first, "-")
    /\ got' = Append(got, NoGot)

\* a get on h returns r, having read status st: the log of what the host
\* engine has seen, the latest result and the one before it
Seen(h, st, r) ==
    got' = [got EXCEPT ![h] = [st |-> st, r |-> r, pst |-> @.st, pr |-> @.r]]

\* a delete on h ends: the log of how the first one ended
Deleted(h, cause) ==
    first' = [first EXCEPT ![h] =
                 IF @ # "-" THEN @
                 ELSE IF cause \in {"ok", "rejected"} THEN cause ELSE "error"]

\* --------------------------------------------------------- the backends
\* The external execution backends are not part of the repository; their
\* behaviour is the one sections 3, 4.4 and 6 describe.
NaturalTerminal == {"completed", "failed", "expired"}
TerminalStatuses == NaturalTerminal \cup {"cancelled"}

\* the job lifecycle: monotone, towards exactly one terminal status
NextStatus(conn, st) ==
    IF conn = "openai"
    THEN CASE st = "validating" -> {"in_progress", "failed"}
           [] st = "in_progress" -> {"finalizing", "expired"}
           [] st = "finalizing" -> {"completed"}
           [] st = "cancelling" -> {"cancelled"}
           [] OTHER -> {}
    ELSE CASE st = "submitted" -> {"running"}
           [] st = "running" -> {"completed", "failed"}
           [] st = "cancelling" -> {"cancelled"}
           [] OTHER -> {}

\* A cancellation request (section 4.4, delete, step 1): with the "force"
\* semantic cancelling an already-terminal job is a no-op, without it the
\* backend rejects the request.
BackendCancel(st, force) ==
    IF st \in TerminalStatuses
    THEN [resp |-> IF force THEN "ok" ELSE "rejected", st |-> st]
    ELSE [resp |-> "ok", st |-> IF st = "cancelling" THEN st ELSE "cancelling"]

\* the job advances on the backend
BackendAdvance(j) ==
    /\ j \in JobIds
    /\ \E s \in NextStatus(jobs[j].conn, jobs[j].st) :
         \E e \in (IF s = "failed" /\ jobs[j].conn = "openai" THEN BOOLEAN ELSE {FALSE}) :
            jobs' = [jobs EXCEPT ![j] = [@ EXCEPT !.st = s, !.err = e]]
    /\ res' = NoRes
    /\ UNCHANGED <<session, handles, pc, cur, ops, first, got, files, aux>>

\* the OpCenter session times out
SessionExpire ==
    /\ session
    /\ session' = FALSE
    /\ res' = NoRes
    /\ UNCHANGED <<jobs, handles, pc, cur, ops, first, got, files, aux>>

\* What the float binary answers (flytekitplugins.mmcloud.utils.
\* async_check_output, section 4.2: the output on exit code 0, a
\* CalledProcessError carrying stdout and stderr otherwise):
\*   ok                   exit 0, UTF-8, a JSON object with the field
\*   exit_nonzero         exit code not 0, stdout and stderr are UTF-8
\*   exit_nonzero_binary  exit code not 0, stdout or stderr is not UTF-8
\*   bad_utf8             exit 0, stdout is not UTF-8
\*   not_json             exit 0, UTF-8, not JSON (e.g. truncated)
\*   no_field             exit 0, a JSON object without the field
\*   not_object           exit 0, a JSON value that is no object
FailureResponses == {"exit_nonzero", "exit_nonzero_binary"}
LoginResponses == {"ok"} \cup FailureResponses
CommandResponses ==
    {"ok", "bad_utf8", "not_json", "no_field", "not_object"} \cup FailureResponses

\* the answers open to the backend: without a session every command fails
Answers(all) == IF session THEN all ELSE {"exit_nonzero"}
CauseOf(r) ==
    IF ~session THEN "no_session"
    ELSE IF r \in FailureResponses THEN "failure" ELSE r

\* ------------------------------------------------------ MMCloudConnector
\* connector.py 64-69, 138-144, 180-186: the command lines
submit_command == [verb |-> "submit", force |-> TRUE]

\* the command names the job a call has handled most recently
show_command_Latest(job_id) ==
    [verb |-> "show", force |-> FALSE,
     job |-> CHOOSE j \in handles : \A k \in handles : k <= j]

show_command(job_id) == [verb |-> "show", force |-> FALSE, job |-> job_id]
cancel_command(job_id) == [verb |-> "cancel", force |-> TRUE, job |-> job_id]

\* the command the operation awaits after `await self.async_login()`
Command(op) ==
    CASE op = "create" -> "submit" [] op = "get" -> "show" [] op = "delete" -> "cancel"

\* connector.py 110-116, 153-159, 193-197: the handler of a failed command
\* formats e.stdout.decode() and e.stderr.decode() into its log record and
\* then re-raises; a decode() that fails raises out of the handler instead.
except_CalledProcessError(r) ==
    IF r = "exit_nonzero_binary" THEN "UnicodeDecodeError" ELSE "CalledProcessError"

\* connector.py 107-122, 150-165: the response of submit or show is decoded,
\* parsed and indexed; the error kind the operation ends with
parse_response(r) ==
    CASE r = "ok" -> "ok"
      [] r \in FailureResponses -> except_CalledProcessError(r)
      [] r = "bad_utf8" -> "UnicodeDecodeError"
      [] r = "not_json" -> "JSONDecodeError"
      [] r = "no_field" -> "KeyError"
      [] r = "not_object" -> "TypeError"

\* the operation of p starts: h is the job of its handle, job the job its
\* request names, file the name of its job script
Begin(p, op, conn, h, awaited, file, job) ==
    /\ pc[p] = "idle"
    /\ ops < MaxOps
    /\ ops' = ops + 1
    /\ pc' = [pc EXCEPT ![p] = awaited]
    /\ cur' = [cur EXCEPT ![p] = [op |-> op, conn |-> conn, h |-> h, job |-> job,
                                  probes |-> IF awaited = "probe" THEN 1 ELSE 0,
                                  probe |-> "-", logins |-> 0,
                                  calls |-> IF awaited = "probe" THEN 0 ELSE 1,
                                  rival |-> FALSE, file |-> file,
                                  late |-> op = "delete" /\ jobs[h].st \in NaturalTerminal,
                                  again |-> op = "delete" /\ first[h] # "-"]]
    /\ res' = NoRes

Submitting == {q \in Procs : cur[q].op = "create"}

\* connector.py 95: NamedTemporaryFile creates a file under a name no file of
\* the directory has (the name is random; the first free one stands for it)
NamedTemporaryFile ==
    CHOOSE n \in 1..(Cardinality(files) + 1) :
        /\ \A f \in files : f.name # n
        /\ \A m \in 1..(n - 1) : \E f \in files : f.name = m

\* create, connector.py 64-106: the command line is built, the job script is
\* written to a NamedTemporaryFile and flushed, and async_login is entered
\* (`float login --info` is awaited); an OSError of the file ends create.
MM_create(p) ==
    /\ Len(jobs) + Cardinality(Submitting) < MaxJobs
    /\ \E written \in BOOLEAN :
         IF written
         THEN /\ Begin(p, "create", "mmcloud", 0, "probe", NamedTemporaryFile, 0)
              /\ files' = files \cup {JobFile(NamedTemporaryFile, TRUE)}
         ELSE /\ pc[p] = "idle"
              /\ ops < MaxOps
              /\ ops' = ops + 1
              /\ res' = [NoRes EXCEPT !.op = "create", !.conn = "mmcloud",
                                       !.kind = "OSError", !.cause = "os_error"]
              /\ UNCHANGED <<pc, cur, files>>
    /\ UNCHANGED <<session, jobs, handles, first, got, aux>>

\* get, connector.py 136-149
MM_get(p, h) ==
    /\ h \in handles /\ jobs[h].conn = "mmcloud"
    /\ Begin(p, "get", "mmcloud", h, "probe", 0, show_command(h).job)
    /\ UNCHANGED <<session, jobs, handles, first, got, files, aux>>

\* delete, connector.py 178-191
MM_delete(p, h) ==
    /\ h \in handles /\ jobs[h].conn = "mmcloud"
    /\ Begin(p, "delete", "mmcloud", h, "probe", 0, cancel_command(h).job)
    /\ UNCHANGED <<session, jobs, handles, first, got, files, aux>>

\* the login exchange is issued whatever the probe has answered
async_login_info_AlwaysLogin(p) ==
    /\ pc[p] = "probe"
    /\ pc' = [pc EXCEPT ![p] = "login"]
    /\ cur' = [cur EXCEPT ![p].logins = @ + 1,
                          ![p].probe = IF session THEN "ok" ELSE "failed"]
    /\ res' = NoRes
    /\ UNCHANGED <<session, jobs, handles, ops, first, got, files, aux>>

\* async_login, connector.py 33-51: `float login --info` has answered.  With
\* a session async_login returns and the operation issues its command;
\* without one the CalledProcessError is caught and `float login` is issued.
\* rival records, for every other call that is inside async_login, that a
\* login exchange was issued while it was.
async_login_info(p) ==
    /\ pc[p] = "probe"
    /\ IF session
       THEN /\ pc' = [pc EXCEPT ![p] = Command(cur[p].op)]
            /\ cur' = [cur EXCEPT ![p].calls = @ + 1, ![p].rival = FALSE,
                                  ![p].probe = "ok"]
       ELSE /\ pc' = [pc EXCEPT ![p] = "login"]
            /\ cur' = [q \in Procs |->
                  IF q = p THEN [cur[q] EXCEPT !.logins = @ + 1, !.probe = "failed"]
                  ELSE IF pc[q] \in {"probe", "login"}
                       THEN [cur[q] EXCEPT !.rival = TRUE]
                       ELSE cur[q]]
    /\ res' = NoRes
    /\ UNCHANGED <<session, jobs, handles, ops, first, got, files, aux>>

\* async_login, connector.py 51-56, and the handler of the calling
\* operation: `float login` has answered.  Exit code 0 establishes the
\* session and the operation issues its command; otherwise the
\* CalledProcessError is logged and re-raised, and the handler of the
\* operation (110-116, 153-159, 193-197) ends the operation.
async_login_login(p) ==
    /\ pc[p] = "login"
    /\ \E r \in LoginResponses :
         IF r = "ok"
         THEN /\ session' = TRUE
              /\ pc' = [pc EXCEPT ![p] = Command(cur[p].op)]
              /\ cur' = [cur EXCEPT ![p].calls = @ + 1, ![p].rival = FALSE]
              /\ res' = NoRes
              /\ UNCHANGED <<first, files>>
         ELSE /\ End(p, Outcome(p, except_CalledProcessError(r), "login",
                                "login_failed", "-", NoPhase, FALSE, FALSE))
              /\ IF cur[p].op = "delete"
                 THEN Deleted(cur[p].h, "login_failed")
                 ELSE UNCHANGED first
              /\ UNCHANGED session
    /\ UNCHANGED <<jobs, handles, ops, got, aux>>

\* create, connector.py 107-130: `float submit` has answered.  The response
\* is decoded, parsed and indexed by "id"; every failure is logged and
\* re-raised, and the job identifier is returned in a MMCloudMetadata.
\* The backend has accepted the job whenever the exit code is 0.
submit_answered(p, r) ==
    LET kind == parse_response(r)
        job_id == Len(jobs) + 1
    IN /\ IF r \in FailureResponses
          THEN UNCHANGED <<jobs, first, got>>
          ELSE Accept("mmcloud", "submitted")
       /\ handles' = IF kind = "ok" THEN handles \cup {job_id} ELSE handles
       /\ End(p, [Outcome(p, kind, "submit", CauseOf(r), "-", NoPhase, FALSE, FALSE)
                      EXCEPT !.h = IF kind = "ok" THEN job_id ELSE 0])

\* a failed submit is issued again
MM_create_done_Retry(p) ==
    /\ pc[p] = "submit" /\ cur[p].conn = "mmcloud"
    /\ \E r \in Answers(CommandResponses) :
         IF r \in FailureResponses
         THEN /\ cur' = [cur EXCEPT ![p].calls = @ + 1]
              /\ res' = NoRes
              /\ UNCHANGED <<jobs, handles, pc, first, got, files>>
         ELSE submit_answered(p, r)
    /\ UNCHANGED <<session, ops, aux>>

MM_create_done(p) ==
    /\ pc[p] = "submit" /\ cur[p].conn = "mmcloud"
    /\ \E r \in Answers(CommandResponses) : submit_answered(p, r)
    /\ UNCHANGED <<session, ops, aux>>

\* an error of the status query is returned as the phase Failed
MM_get_done_ErrorAsFailed(p) ==
    /\ pc[p] = "show" /\ cur[p].conn = "mmcloud"
    /\ \E r \in Answers(CommandResponses) :
         LET kind == parse_response(r)
             job_status == jobs[cur[p].job].st
             task_phase == IF kind = "ok" THEN mmcloud_status_to_flyte_phase(job_status)
                           ELSE FAILED
         IN /\ End(p, Outcome(p, "ok", "show", CauseOf(r),
                              IF kind = "ok" THEN job_status ELSE "-",
                              task_phase, FALSE, FALSE))
            /\ IF kind = "ok"
               THEN Seen(cur[p].h, job_status, Resource(task_phase, FALSE, FALSE))
               ELSE UNCHANGED got
    /\ UNCHANGED <<session, jobs, handles, ops, first, aux>>

\* get, connector.py 150-172: `float show` has answered for the job the
\* command names.  The response is decoded, parsed and indexed by "status";
\* the status is normalized and returned as Resource(phase=task_phase).
MM_get_done(p) ==
    /\ pc[p] = "show" /\ cur[p].conn = "mmcloud"
    /\ \E r \in Answers(CommandResponses) :
         LET kind == parse_response(r)
             job_status == jobs[cur[p].job].st
             task_phase == mmcloud_status_to_flyte_phase(job_status)
         IN IF kind = "ok"
            THEN /\ End(p, Outcome(p, "ok", "show", "ok", job_status, task_phase, FALSE, FALSE))
                 /\ Seen(cur[p].h, job_status, Resource(task_phase, FALSE, FALSE))
            ELSE /\ End(p, Outcome(p, kind, "show", CauseOf(r), "-", NoPhase, FALSE, FALSE))
                 /\ UNCHANGED got
    /\ UNCHANGED <<session, jobs, handles, ops, first, aux>>

\* delete, connector.py 192-199: `float cancel --force` has answered; a
\* CalledProcessError is logged and re-raised, the output is not read.
MM_delete_done(p) ==
    /\ pc[p] = "cancel" /\ cur[p].conn = "mmcloud"
    /\ LET h == cur[p].h
           job == cur[p].job
           c == BackendCancel(jobs[job].st, cancel_command(job).force)
       IN \E r \in Answers(LoginResponses) :
            IF r \in FailureResponses \/ c.resp = "rejected"
            THEN LET cause == IF r = "ok" THEN "rejected" ELSE CauseOf(r)
                     e == IF r = "ok" THEN "exit_nonzero" ELSE r
                 IN /\ End(p, Outcome(p, except_CalledProcessError(e), "cancel",
                                      cause, jobs[job].st, NoPhase, FALSE, FALSE))
                    /\ Deleted(h, cause)
                    /\ UNCHANGED jobs
            ELSE /\ End(p, Outcome(p, "ok", "cancel", "ok", jobs[job].st, NoPhase, FALSE, FALSE))
                 /\ Deleted(h, "ok")
                 /\ jobs' = [jobs EXCEPT ![job].st = c.st]
    /\ UNCHANGED <<session, handles, ops, got, aux>>

\* connector.py 33-56, 107-128, 150-165, 192-197: the float binary cannot be
\* started (it is missing, or the process cannot be created) and the awaited
\* call raises an OSError.  No handler of async_login, get or delete names
\* it; in create it passes the handler of lines 126-128, which logs "Cannot
\* open job script for writing" and re-raises.
MM_spawn_error(p) ==
    /\ pc[p] # "idle" /\ cur[p].conn = "mmcloud"
    /\ End(p, Outcome(p, "OSError", pc[p], "spawn", "-", NoPhase, FALSE, FALSE))
    /\ IF cur[p].op = "delete" THEN Deleted(cur[p].h, "spawn") ELSE UNCHANGED first
    /\ UNCHANGED <<session, jobs, handles, ops, got, aux>>

\* ---------------------------------------------------- BatchEndpointAgent
\* What the OpenAI client answers: the result, or an API error it raises.
ApiResponses == {"ok", "api_error"}

\* agent.py 107, 135: the requests carry the batch id and nothing else
batches_retrieve(batch_id) == [verb |-> "show", force |-> FALSE, job |-> batch_id]
batches_cancel(batch_id) == [verb |-> "cancel", force |-> FALSE, job |-> batch_id]

\* create, agent.py 72-91: the client is built and batches.create awaited
OA_create(p) ==
    /\ Len(jobs) + Cardinality(Submitting) < MaxJobs
    /\ Begin(p, "create", "openai", 0, "submit", 0, 0)
    /\ UNCHANGED <<session, jobs, handles, first, got, files, aux>>

\* create, agent.py 88-94: batches.create has answered; the id of the batch
\* is returned in a BatchEndpointMetadata.  No error is caught.  keyed: the
\* custom of the task has the key "openai_organization"; line 81 reads it
\* with custom.get, line 94 with custom[...], which raises a KeyError
\* without the key, after the batch has been created.
OA_create_done(p) ==
    /\ pc[p] = "submit" /\ cur[p].conn = "openai"
    /\ \E r \in ApiResponses : \E keyed \in BOOLEAN :
         LET batch_id == Len(jobs) + 1
         IN IF r = "ok"
            THEN /\ Accept("openai", "validating")
                 /\ handles' = IF keyed THEN handles \cup {batch_id} ELSE handles
                 /\ End(p, IF keyed
                           THEN [Outcome(p, "ok", "submit", "ok", "-", NoPhase, FALSE, FALSE)
                                    EXCEPT !.h = batch_id]
                           ELSE Outcome(p, "KeyError", "submit", "no_org", "-", NoPhase,
                                        FALSE, FALSE))
            ELSE /\ End(p, Outcome(p, "APIError", "submit", "failure", "-", NoPhase, FALSE, FALSE))
                 /\ UNCHANGED <<jobs, handles, first, got>>
    /\ UNCHANGED <<session, ops, aux>>

\* get, agent.py 102-107: the client is built and batches.retrieve awaited
OA_get(p, h) ==
    /\ h \in handles /\ jobs[h].conn = "openai"
    /\ Begin(p, "get", "openai", h, "show", 0, batches_retrieve(h).job)
    /\ UNCHANGED <<session, jobs, handles, first, got, files, aux>>

\* get asks the backend to cancel where it should ask for the status
OA_get_done_Cancels(p) ==
    /\ pc[p] = "show" /\ cur[p].conn = "openai"
    /\ LET h == cur[p].h
           current_state == jobs[h].st
           flyte_phase == convert_to_flyte_phase(key_by_value(current_state))
       IN /\ End(p, Outcome(p, "ok", "show", "ok", current_state, flyte_phase, FALSE, FALSE))
          /\ Seen(h, current_state, Resource(flyte_phase, FALSE, FALSE))
          /\ jobs' = [jobs EXCEPT ![h].st = BackendCancel(@, FALSE).st]
    /\ UNCHANGED <<session, handles, ops, first, aux>>

\* the outputs are built whatever the status is
OA_get_done_AlwaysResult(p) ==
    /\ pc[p] = "show" /\ cur[p].conn = "openai"
    /\ \E r \in ApiResponses :
         LET h == cur[p].h
             current_state == jobs[cur[p].job].st
             flyte_phase == convert_to_flyte_phase(key_by_value(current_state))
             message == current_state \in State_Failed /\ jobs[cur[p].job].err
         IN IF r = "ok"
            THEN /\ End(p, Outcome(p, "ok", "show", "ok", current_state,
                                   flyte_phase, TRUE, message))
                 /\ Seen(h, current_state, Resource(flyte_phase, TRUE, message))
            ELSE /\ End(p, Outcome(p, "APIError", "show", "failure", "-", NoPhase, FALSE, FALSE))
                 /\ UNCHANGED got
    /\ UNCHANGED <<session, jobs, handles, ops, first, aux>>

\* get, agent.py 107-122: batches.retrieve has answered for the batch the
\* request names.  The status is looked up in State and converted; a message
\* is taken from the errors of a Failed status, the outputs are built for a
\* Success status.
OA_get_done(p) ==
    /\ pc[p] = "show" /\ cur[p].conn = "openai"
    /\ \E r \in ApiResponses :
         LET h == cur[p].h
             current_state == jobs[cur[p].job].st
             flyte_phase == convert_to_flyte_phase(key_by_value(current_state))
             message == current_state \in State_Failed /\ jobs[cur[p].job].err
             result == current_state \in State_Success
         IN IF r = "ok"
            THEN IF flyte_phase = NoPhase
                 THEN /\ End(p, Outcome(p, "no_phase", "show", "unmapped", current_state,
                                        NoPhase, FALSE, FALSE))
                      /\ UNCHANGED got
                 ELSE /\ End(p, Outcome(p, "ok", "show", "ok", current_state,
                                        flyte_phase, result, message))
                      /\ Seen(h, current_state, Resource(flyte_phase, result, message))
            ELSE /\ End(p, Outcome(p, "APIError", "show", "failure", "-", NoPhase, FALSE, FALSE))
                 /\ UNCHANGED got
    /\ UNCHANGED <<session, jobs, handles, ops, first, aux>>

\* delete, agent.py 130-135: the client is built and batches.cancel awaited
OA_delete(p, h) ==
    /\ h \in handles /\ jobs[h].conn = "openai"
    /\ Begin(p, "delete", "openai", h, "cancel", 0, batches_cancel(h).job)
    /\ UNCHANGED <<session, jobs, handles, first, got, files, aux>>

\* delete, agent.py 135: batches.cancel has answered.  No error is caught.
OA_delete_done(p) ==
    /\ pc[p] = "cancel" /\ cur[p].conn = "openai"
    /\ LET h == cur[p].h
           job == cur[p].job
           c == BackendCancel(jobs[job].st, batches_cancel(job).force)
       IN \E r \in ApiResponses :
            IF r = "api_error" \/ c.resp = "rejected"
            THEN LET cause == IF r = "ok" THEN "rejected" ELSE "failure"
                 IN /\ End(p, Outcome(p, "APIError", "cancel", cause, jobs[job].st,
                                      NoPhase, FALSE, FALSE))
                    /\ Deleted(h, cause)
                    /\ UNCHANGED jobs
            ELSE /\ End(p, Outcome(p, "ok", "cancel", "ok", jobs[job].st, NoPhase, FALSE, FALSE))
                 /\ Deleted(h, "ok")
                 /\ jobs' = [jobs EXCEPT ![job].st = c.st]
    /\ UNCHANGED <<session, handles, ops, got, aux>>

\* ------------------------------------------------------------ the Invoker
\* the status a backend gives a job it accepts
InitialStatus(conn) == IF conn = "mmcloud" THEN "submitted" ELSE "validating"

\* a call the backend does not answer is awaited for ever
Timeout_Never(p) ==
    /\ FALSE
    /\ UNCHANGED vars

\* Sections 4.2 and 5: the one round trip of the Invoker (async_check_output
\* of flytekitplugins.mmcloud.utils, the OpenAI client) is bounded in time.
\* The backend does not answer the call p awaits: the call times out and
\* raises, no handler of the connectors names the error, and the operation
\* ends with it.  The backend may have acted on the request all the same.
Timeout(p) ==
    /\ pc[p] # "idle"
    /\ LET c == cur[p]
           kind == IF c.conn = "mmcloud" THEN "TimeoutError" ELSE "APITimeoutError"
       IN /\ End(p, Outcome(p, kind, pc[p], "timeout", "-", NoPhase, FALSE, FALSE))
          /\ \E taken \in BOOLEAN :
               /\ session' = IF taken /\ pc[p] = "login" THEN TRUE ELSE session
               /\ IF taken /\ pc[p] = "submit"
                  THEN Accept(c.conn, InitialStatus(c.conn))
                  ELSE /\ jobs' = IF taken /\ pc[p] = "cancel"
                                  THEN [jobs EXCEPT ![c.job].st = BackendCancel(@, TRUE).st]
                                  ELSE jobs
                       /\ IF c.op = "delete"
                          THEN Deleted(c.h, "timeout")
                          ELSE UNCHANGED first
                       /\ UNCHANGED got
    /\ UNCHANGED <<handles, ops, aux>>

\* ------------------------------------------------- handles and requests
\* Strings are sequences of characters; the quote and the backslash are
\* among them.  NoneStr is None where a string is expected, NoneNum is None
\* where a number is expected (a number n is <<n>> there).
Chars == {"a", "\"", "\\"}
Strs == UNION {[1..k -> Chars] : k \in 0..MaxLen}
NoneStr == <<NoneVal>>
NoneNum == <<>>
Digits == <<"0", "1", "2", "3", "4", "5", "6", "7", "8", "9">>

\* str() of a natural number, as f"{n}" formats it
RECURSIVE ToStr(_)
ToStr(n) ==
    IF n < 10 THEN <<Digits[n + 1]>>
    ELSE ToStr(n \div 10) \o <<Digits[(n % 10) + 1]>>

\* agent.py 42-45, connector.py 17-19: the Job Handles
BatchEndpointMetadata(openai_org, batch_id) ==
    [cls |-> "BatchEndpointMetadata", openai_org |-> openai_org, batch_id |-> batch_id]
MMCloudMetadata(job_id) == [cls |-> "MMCloudMetadata", job_id |-> job_id]

\* None is written as the empty string
pickle_str_NoneAsEmpty(v) ==
    IF v = NoneStr THEN <<"X", "0">> ELSE <<"X", ToStr(Len(v))[1]>> \o v

\* pickle writes None as the opcode N and a string as the opcode X, its
\* length and its characters
pickle_str(v) ==
    IF v = NoneStr THEN <<"N">> ELSE <<"X", ToStr(Len(v))[1]>> \o v

\* agent.py 47-48, encode: cloudpickle.dumps(self) writes the class by
\* reference and the instance dictionary, key by key
cloudpickle_dumps(meta) ==
    <<"c", meta.cls, "}">>
        \o <<"k", "openai_org">> \o pickle_str(meta.openai_org)
        \o <<"k", "batch_id">> \o pickle_str(meta.batch_id)
        \o <<"b", ".">>

\* the value written at position i of a pickle, and the position after it
pickle_load(data, i) ==
    IF data[i] = "N"
    THEN [v |-> NoneStr, next |-> i + 1]
    ELSE LET n == CHOOSE k \in 0..9 : Digits[k + 1] = data[i + 1]
         IN [v |-> SubSeq(data, i + 2, i + 1 + n), next |-> i + 2 + n]

\* agent.py 50-52, decode: cloudpickle.loads(data) builds an instance of the
\* class and sets its dictionary from the keys and values read
cloudpickle_loads(data) ==
    LET k1 == data[5]
        v1 == pickle_load(data, 6)
        k2 == data[v1.next + 1]
        v2 == pickle_load(data, v1.next + 2)
        dict == [k \in {k1, k2} |-> IF k = k1 THEN v1.v ELSE v2.v]
    IN [cls |-> data[2], openai_org |-> dict["openai_org"], batch_id |-> dict["batch_id"]]

\* ResourceMeta.encode and decode (flytekit.extend.backend, not among the
\* sources), which MMCloudMetadata inherits: the handle as a JSON object,
\* section 3: quotes and backslashes of a string are escaped
RECURSIVE json_escape(_)
json_escape(s) ==
    IF s = <<>> THEN <<>>
    ELSE (IF Head(s) \in {"\"", "\\"} THEN <<"\\", Head(s)>> ELSE <<Head(s)>>)
             \o json_escape(Tail(s))

json_dumps(meta) ==
    <<"{", "job_id", ":", "\"">> \o json_escape(meta.job_id) \o <<"\"", "}">>

\* the string that starts at position i of a JSON text, up to its closing quote
RECURSIVE json_string(_, _)
json_string(data, i) ==
    IF data[i] = "\"" THEN <<>>
    ELSE IF data[i] = "\\" THEN <<data[i + 1]>> \o json_string(data, i + 2)
    ELSE <<data[i]>> \o json_string(data, i + 1)

json_loads(data) == [cls |-> "MMCloudMetadata", job_id |-> json_string(data, 5)]

\* encode and decode of the metadata type of the connector
encode(meta) ==
    IF meta.cls = "BatchEndpointMetadata" THEN cloudpickle_dumps(meta) ELSE json_dumps(meta)
decode(cls, data) ==
    IF cls = "BatchEndpointMetadata" THEN cloudpickle_loads(data) ELSE json_loads(data)

\* the handles create returns: agent.py 81 and 94 take the organization from
\* the task (it may be None), the identifiers are the backends'
Metas ==
    {BatchEndpointMetadata(o, b) : o \in Strs \cup {NoneStr}, b \in Strs}
        \cup {MMCloudMetadata(j) : j \in Strs}

\* task_template.custom["resources"]: (min_cpu, min_mem, max_cpu, max_mem), a
\* maximum is None or no less than the minimum; MMCloud takes no less than
\* one CPU and one GiB
Bounds == {<<min, max>> : min \in 1..MaxRes, max \in {NoneNum} \cup {<<m>> : m \in 1..MaxRes}}
Resources ==
    {<<c[1], m[1], c[2], m[2]>> : c \in {b \in Bounds : b[2] = NoneNum \/ b[1] <= b[2][1]},
                                  m \in {b \in Bounds : b[2] = NoneNum \/ b[1] <= b[2][1]}}

\* Python's truth value of an optional number
truthy(x) == x # NoneNum /\ x # <<0>>

\* the memory bound is written with the maximum of the CPUs
create_command_CpuMaxForMem(resources) ==
    LET min_cpu == resources[1]
        min_mem == resources[2]
        max_cpu == resources[3]
        max_mem == resources[4]
    IN <<"float", "submit", "--force", "--format", "json">>
          \o (IF truthy(max_cpu)
              THEN <<"--cpu", ToStr(min_cpu) \o <<":">> \o ToStr(max_cpu[1])>>
              ELSE <<"--cpu", ToStr(min_cpu)>>)
          \o (IF truthy(max_cpu)
              THEN <<"--mem", ToStr(min_mem) \o <<":">> \o ToStr(max_cpu[1])>>
              ELSE <<"--mem", ToStr(min_mem)>>)

\* create, connector.py 64-74: the submit command and its resource bounds
create_command(resources) ==
    LET min_cpu == resources[1]
        min_mem == resources[2]
        max_cpu == resources[3]
        max_mem == resources[4]
    IN <<"float", "submit", "--force", "--format", "json">>
          \o (IF truthy(max_cpu)
              THEN <<"--cpu", ToStr(min_cpu) \o <<":">> \o ToStr(max_cpu[1])>>
              ELSE <<"--cpu", ToStr(min_cpu)>>)
          \o (IF truthy(max_mem)
              THEN <<"--mem", ToStr(min_mem) \o <<":">> \o ToStr(max_mem[1])>>
              ELSE <<"--mem", ToStr(min_mem)>>)

NoAux == [stage |-> "-", arg |-> <<>>, wire |-> <<>>, out |-> <<>>]

\* the host engine encodes the handle create has returned
encode_handle ==
    /\ aux.stage = "handle"
    /\ aux' = [aux EXCEPT !.stage = "encoded", !.wire = encode(aux.arg)]
    /\ UNCHANGED <<session, jobs, handles, pc, cur, res, ops, first, got, files>>

\* the host engine decodes the handle for a get or a delete
decode_handle ==
    /\ aux.stage = "encoded"
    /\ aux' = [aux EXCEPT !.stage = "decoded", !.out = decode(aux.arg.cls, aux.wire)]
    /\ UNCHANGED <<session, jobs, handles, pc, cur, res, ops, first, got, files>>

\* create builds the submit command of a task
build_command ==
    /\ aux.stage = "request"
    /\ aux' = [aux EXCEPT !.stage = "command", !.out = create_command(aux.arg)]
    /\ UNCHANGED <<session, jobs, handles, pc, cur, res, ops, first, got, files>>

\* ------------------------------------------------------- specifications
Init ==
    /\ session = FALSE
    /\ jobs = <<>>
    /\ handles = {}
    /\ pc = [p \in Procs |-> "idle"]
    /\ cur = [p \in Procs |-> Idle]
    /\ res = NoRes
    /\ ops = 0
    /\ first = <<>>
    /\ got = <<>>
    /\ files = {}
    /\ aux = NoAux

Next ==
    \/ \E p \in Procs : MM_create(p)
    \/ \E p \in Procs : \E h \in JobIds : MM_get(p, h)
    \/ \E p \in Procs : \E h \in JobIds : MM_delete(p, h)
    \/ \E p \in Procs : async_login_info(p)
    \/ \E p \in Procs : async_login_login(p)
    \/ \E p \in Procs : MM_create_done(p)
    \/ \E p \in Procs : MM_get_done(p)
    \/ \E p \in Procs : MM_delete_done(p)
    \/ \E p \in Procs : OA_create(p)
    \/ \E p \in Procs : \E h \in JobIds : OA_get(p, h)
    \/ \E p \in Procs : \E h \in JobIds : OA_delete(p, h)
    \/ \E p \in Procs : OA_create_done(p)
    \/ \E p \in Procs : OA_get_done(p)
    \/ \E p \in Procs : OA_delete_done(p)
    \/ \E p \in Procs : MM_spawn_error(p)
    \/ \E p \in Procs : Timeout(p)
    \/ \E j \in JobIds : BackendAdvance(j)
    \/ SessionExpire

Spec == Init /\ [][Next]_vars

\* The status normalizers over arbitrary backend strings: a job of either
\* backend reports any token of the vocabularies or a token of no table (a
\* later backend version), and the host engine polls it.
LifecycleTokens ==
    {"validating", "in_progress", "finalizing", "completed", "failed", "expired",
     "cancelling", "cancelled", "submitted", "running"}
UnmappedTokens == {"paused", ""}

InitNorm ==
    /\ session \in BOOLEAN
    /\ \E c \in Conns : \E s \in LifecycleTokens \cup UnmappedTokens :
          jobs = <<NewJob(c, s)>>
    /\ handles = {1}
    /\ pc = [p \in Procs |-> "idle"]
    /\ cur = [p \in Procs |-> Idle]
    /\ res = NoRes
    /\ ops = 0
    /\ first = <<"-">>
    /\ got = <<NoGot>>
    /\ files = {}
    /\ aux = NoAux

NextNorm ==
    \/ \E p \in Procs : \E h \in JobIds : MM_get(p, h)
    \/ \E p \in Procs : async_login_info(p)
    \/ \E p \in Procs : async_login_login(p)
    \/ \E p \in Procs : MM_get_done(p)
    \/ \E p \in Procs : \E h \in JobIds : OA_get(p, h)
    \/ \E p \in Procs : OA_get_done(p)
    \/ \E p \in Procs : MM_spawn_error(p)
    \/ \E p \in Procs : Timeout(p)

SpecNorm == InitNorm /\ [][NextNorm]_vars

\* Two jobs that earlier creates have submitted, one handle each, and the
\* polls and cancellations of the host engine on them; of the operations of
\* the run one is spent on the creates.  The backends hold still but for the
\* cancellations, so that what a call is answered depends on its job alone.
InitPair ==
    /\ session \in BOOLEAN
    /\ \E c1 \in Conns : \E c2 \in Conns :
          jobs = <<NewJob(c1, InitialStatus(c1)), NewJob(c2, InitialStatus(c2))>>
    /\ handles = {1, 2}
    /\ pc = [p \in Procs |-> "idle"]
    /\ cur = [p \in Procs |-> Idle]
    /\ res = NoRes
    /\ ops = 1
    /\ first = <<"-", "-">>
    /\ got = <<NoGot, NoGot>>
    /\ files = {}
    /\ aux = NoAux

NextPair ==
    \/ \E p \in Procs : \E h \in JobIds : MM_get(p, h)
    \/ \E p \in Procs : \E h \in JobIds : MM_delete(p, h)
    \/ \E p \in Procs : async_login_info(p)
    \/ \E p \in Procs : async_login_login(p)
    \/ \E p \in Procs : MM_get_done(p)
    \/ \E p \in Procs : MM_delete_done(p)
    \/ \E p \in Procs : \E h \in JobIds : OA_get(p, h)
    \/ \E p \in Procs : \E h \in JobIds : OA_delete(p, h)
    \/ \E p \in Procs : OA_get_done(p)
    \/ \E p \in Procs : OA_delete_done(p)
    \/ \E p \in Procs : MM_spawn_error(p)
    \/ \E p \in Procs : Timeout(p)

SpecPair == InitPair /\ [][NextPair]_vars

\* The conversions over their inputs: every handle a create can return is
\* encoded and decoded, the submit command of every request is built.
InitPure ==
    /\ session = FALSE
    /\ jobs = <<>>
    /\ handles = {}
    /\ pc = [p \in Procs |-> "idle"]
    /\ cur = [p \in Procs |-> Idle]
    /\ res = NoRes
    /\ ops = 0
    /\ first = <<>>
    /\ got = <<>>
    /\ files = {}
    /\ \/ \E m \in Metas : aux = [NoAux EXCEPT !.stage = "handle", !.arg = m]
       \/ \E r \in Resources : aux = [NoAux EXCEPT !.stage = "request", !.arg = r]

NextPure ==
    \/ encode_handle
    \/ decode_handle
    \/ build_command

SpecPure == InitPure /\ [][NextPure]_vars

TypeOK ==
    /\ session \in BOOLEAN
    /\ Len(jobs) <= MaxJobs + 1
    /\ handles \subseteq JobIds
    /\ ops \in 0..MaxOps

\* ------------------------------------------------------------- properties

\* C1: when no valid session exists and two connector operations are inside
\* async_login at the same time, exactly one login exchange is issued across
\* both: no call awaits its own `float login` when another login exchange
\* was issued while it was inside async_login.
C1_OneLoginExchange ==
    \A p \in Procs : ~(pc[p] = "login" /\ cur[p].rival)

\* C2: delete is idempotent: a delete that follows a finished delete on the
\* same handle ends with no error the first one did not end with; the
\* backend's refusal to cancel a job already cancelled or terminal is such
\* an error (a failure of the call's own session or transport is not).
C2_DeleteIdempotent ==
    (res.op = "delete" /\ res.again /\ res.cause = "rejected")
        => first[res.h] = "rejected"

\* C3: delete with the handle of a job that has completed naturally (its
\* status is completed, failed or expired) does not raise on account of it:
\* the cancellation is not refused.
C3_DeleteAfterCompletion ==
    (res.op = "delete" /\ res.late) => res.cause # "rejected"

C5_NormalizerTotal ==
    (res.op = "get" /\ res.st # "-")
        => (res.kind = "ok" /\ res.phase \in CanonicalPhases \cup {UNDEFINED})

\* C6: each call of create issues at most one submission request, on every
\* path, the failure paths included.
C6_AtMostOneSubmit ==
    /\ \A p \in Procs : cur[p].op = "create" => cur[p].calls <= 1
    /\ res.op = "create" => res.calls <= 1

C6_Witness ==
    res.op = "create" /\ res.cmd = "submit" /\ res.kind # "ok" /\ res.calls = 1

\* C7: if the login exchange of create, get or delete fails, the operation
\* ends with the authentication error (the CalledProcessError of the login
\* command), after one login exchange and without issuing its backend call.
C7_LoginFailureAborts ==
    res.cause = "login_failed"
        => /\ res.kind = "CalledProcessError" /\ res.cmd = "login"
           /\ res.logins = 1
           /\ res.calls = 0

\* the failure mode of a backend answer, and the one an error kind reports
ModeOf(cause) ==
    CASE cause \in {"failure", "no_session"} -> "invocation"
      [] cause \in {"bad_utf8", "not_json"} -> "decoding"
      [] cause \in {"no_field", "not_object"} -> "missing_field"
      [] OTHER -> "-"
ReportedAs(kind) ==
    CASE kind = "CalledProcessError" -> "invocation"
      [] kind \in {"UnicodeDecodeError", "JSONDecodeError"} -> "decoding"
      [] kind \in {"KeyError", "TypeError"} -> "missing_field"
      [] OTHER -> "-"

\* C8: in create and get of the MMCloud connector an invocation failure, a
\* decoding failure and a missing-field failure end the operation with
\* different error kinds, each reported as what it is.
C8_FailureModesDistinct ==
    (res.conn = "mmcloud" /\ res.cmd \in {"submit", "show"} /\ ModeOf(res.cause) # "-")
        => ReportedAs(res.kind) = ModeOf(res.cause)

\* some step of a get of p: its start, or the answer of a call it awaits
GetStep(p) == (cur[p].op = "get" \/ cur'[p].op = "get") /\ pc'[p] # pc[p]

\* C9: get is a pure read: no step of a get issues a submission or a
\* cancellation, changes a job of a backend or changes the handles; and a
\* get that reads the status the previous get on the handle read returns
\* the same result.
C9_GetIsPureRead ==
    [][\A p \in Procs : GetStep(p) =>
           /\ jobs' = jobs
           /\ handles' = handles
           /\ pc'[p] \notin {"submit", "cancel"}
           /\ \A j \in JobIds : got'[j].pst = got'[j].st => got'[j].pr = got'[j].r]_vars

C9_Witness ==
    \E j \in JobIds : got[j].pst # "-" /\ got[j].pst = got[j].st /\ res.op = "get"

\* the job is in progress: not completed, not being cancelled
InProgress(conn, st) == st # "cancelling" /\ NextStatus(conn, st) # {}

\* C10: a get with the handle create returned, answered before the backend
\* has completed the job, returns phase Queued or Running, never a terminal
\* phase.
C10_FreshJobNotTerminal ==
    (res.op = "get" /\ res.kind = "ok" /\ InProgress(res.conn, res.st))
        => res.phase \in {"Queued", RUNNING}

C10_Witness ==
    /\ res.op = "get" /\ res.kind = "ok" /\ res.phase = RUNNING
    /\ res.st \in {"validating", "submitted"}

\* C11: a get that reads a status of the Succeeded bucket ("completed")
\* returns the phase Succeeded together with outputs that are not None, with
\* either connector.
C11_SucceededHasOutputs ==
    (res.op = "get" /\ res.kind = "ok" /\ res.st \in State_Success)
        => (res.phase = SUCCEEDED /\ res.outputs)

\* the statuses of the Running bucket, of either backend
RunningBucket == State_Running \cup {"submitted", "running"}

\* C12: create returns a handle whose job identifier is the one the backend
\* has given the job; a get that reads a status of the Running bucket
\* returns the phase Running with neither outputs nor message; and a get
\* returns outputs only with a status of the Succeeded bucket, a message
\* only with a status of the Failed bucket, never both.
C12_HandleAndPayloads ==
    /\ (res.op = "create" /\ res.kind = "ok")
           => (res.h = Len(jobs) /\ res.h \in handles /\ jobs[res.h].conn = res.conn)
    /\ (res.op = "get" /\ res.kind = "ok")
           => /\ res.st \in RunningBucket
                    => (res.phase = RUNNING /\ ~res.outputs /\ ~res.message)
              /\ res.outputs => res.st \in State_Success
              /\ res.message => res.st \in State_Failed
              /\ ~(res.outputs /\ res.message)

C12_Witness ==
    \E j \in JobIds : /\ got[j].pr.phase = RUNNING
                      /\ got[j].r.message
                      /\ res.op = "get" /\ res.h = j

\* C13: encoding a Job Handle and decoding the result yields a handle equal
\* to the original field for field (openai_org and batch_id; job_id), for
\* every handle.
C13_HandleRoundTrip ==
    aux.stage = "decoded" => aux.out = aux.arg

C13_Witness ==
    /\ aux.stage = "decoded"
    /\ aux.arg.cls = "BatchEndpointMetadata"
    /\ aux.arg.openai_org = NoneStr
    /\ Len(aux.arg.batch_id) = MaxLen
    /\ aux.out.openai_org = NoneStr /\ aux.out.batch_id = aux.arg.batch_id

\* the number a string of digits denotes
RECURSIVE ParseNum(_)
ParseNum(s) ==
    IF s = <<>> THEN 0
    ELSE 10 * ParseNum(SubSeq(s, 1, Len(s) - 1))
            + (CHOOSE k \in 0..9 : Digits[k + 1] = s[Len(s)])

\* the bound an argument of --cpu or --mem denotes: <<min>> or <<min, max>>
BoundOf(arg) ==
    LET colons == {i \in 1..Len(arg) : arg[i] = ":"}
    IN IF colons = {} THEN <<ParseNum(arg)>>
       ELSE LET i == CHOOSE c \in colons : TRUE
            IN <<ParseNum(SubSeq(arg, 1, i - 1)), ParseNum(SubSeq(arg, i + 1, Len(arg)))>>

\* C14: create sends each resource bound as "min:max" when a maximum is
\* given and as "min" alone when it is absent, independently for CPU and
\* memory; minimum CPU 1, maximum CPU 4, minimum memory 2 and no maximum
\* memory give `--cpu 1:4` and `--mem 2`.
C14_ResourceBounds ==
    aux.stage = "command" =>
        LET r == aux.arg
            cmd == aux.out
        IN /\ Len(cmd) = 9 /\ cmd[6] = "--cpu" /\ cmd[8] = "--mem"
           /\ BoundOf(cmd[7]) = (IF r[3] = NoneNum THEN <<r[1]>> ELSE <<r[1], r[3][1]>>)
           /\ BoundOf(cmd[9]) = (IF r[4] = NoneNum THEN <<r[2]>> ELSE <<r[2], r[4][1]>>)
           /\ r = <<1, 2, <<4>>, NoneNum>>
                 => (cmd[7] = <<"1", ":", "4">> /\ cmd[9] = <<"2">>)

C14_Witness ==
    /\ aux.stage = "command"
    /\ aux.arg = <<1, 2, <<4>>, NoneNum>>
    /\ aux.out[7] = <<"1", ":", "4">> /\ aux.out[9] = <<"2">>

C16_ProbeThenLogin ==
    /\ \A p \in Procs : cur[p].conn = "mmcloud" =>
           /\ cur[p].probes = 1 /\ cur[p].logins <= 1
           /\ cur[p].probe = "ok" => cur[p].logins = 0
           /\ cur[p].logins = 1 => cur[p].probe = "failed"
           /\ pc[p] = "login" => (cur[p].probe = "failed" /\ cur[p].logins = 1)
    /\ res.probes <= 1 /\ res.logins <= 1

C16_Witness ==
    \E p \in Procs : /\ pc[p] \in {"submit", "show", "cancel"}
                     /\ cur[p].conn = "mmcloud"
                     /\ cur[p].probe = "ok" /\ cur[p].probes = 1 /\ cur[p].logins = 0

\* the creates of the MMCloud connector in progress
Scripting == {p \in Procs : cur[p].op = "create" /\ cur[p].conn = "mmcloud"}

\* C17: while create of the MMCloud connector awaits a call, the submit call
\* in particular, its job script exists with its content flushed, under a
\* name of its own; once create has returned or raised, on whatever path,
\* the job script exists no longer.
C17_JobScriptLifetime ==
    /\ \A p \in Scripting : JobFile(cur[p].file, TRUE) \in files
    /\ \A p \in Scripting : \A q \in Scripting : p # q => cur[p].file # cur[q].file
    /\ \A f \in files : \E p \in Scripting : cur[p].file = f.name

C17_Witness ==
    /\ res.op = "create" /\ res.conn = "mmcloud"
    /\ res.cmd = "submit" /\ res.kind = "KeyError"
    /\ files = {}

\* C18: a failure of get is never reported as a phase: get returns the
\* phase Failed only when the status query has succeeded and has reported
\* a status of the Failed bucket; when the session check, the status query
\* or the decoding of its answer fails, get raises and returns no phase.
C18_FailureIsNoPhase ==
    res.op = "get" =>
        /\ res.phase = FAILED
              => (res.kind = "ok" /\ res.cause = "ok" /\ res.st \in State_Failed)
        /\ res.cause # "ok" => (res.kind # "ok" /\ res.phase = NoPhase)

C18_Witness ==
    /\ res.op = "get" /\ res.conn = "mmcloud"
    /\ res.cause = "not_json" /\ res.kind = "JSONDecodeError"
    /\ res.phase = NoPhase
    /\ \E j \in JobIds : got[j].r.phase = FAILED

\* what a call in progress is, the record of rival logins apart
Call(c) == [c EXCEPT !.rival = FALSE]

\* the phase get returns for a status of a backend
PhaseOf(conn, st) ==
    IF conn = "mmcloud" THEN mmcloud_status_to_flyte_phase(st)
    ELSE convert_to_flyte_phase(key_by_value(st))

C20_ScriptErrorOnly ==
    (res.op = "create" /\ res.conn = "mmcloud" /\ res.kind = "OSError")
        => /\ res.cause = "os_error"
           /\ res.probes = 0 /\ res.logins = 0 /\ res.calls = 0

\* C21: whenever create ends with an error, that call has created no job on
\* the backend, so that every job create submits has its identifier
\* returned in a handle (a call that has timed out, whose request the
\* backend may or may not have taken, is left aside).
C21_ErrorMeansNoJob ==
    [][\A p \in Procs :
           (cur[p].op = "create" /\ pc'[p] = "idle"
                /\ res'.kind # "ok" /\ res'.cause # "timeout")
               => jobs' = jobs]_vars

====
